---- MODULE Spec2Model ----
(***************************************************************************)
(* Model of LikedTweetsFetcher (src/get_my_liked_tweets.py): the           *)
(* resumable, checkpointed collection of liked tweets.                     *)
(*                                                                         *)
(* The persistent store is the pair of documents liked_tweets.json and     *)
(* checkpoint.json.  A process is one execution of main(): __init__ loads  *)
(* both documents, fetch_liked_tweets pages through the remote source and  *)
(* rewrites both documents at every save.  A process may be killed between *)
(* any two steps; a document opened with mode 'w' is truncated before its  *)
(* new content is dumped, so a kill between the two leaves a document that *)
(* json.load rejects.                                                      *)
(*                                                                         *)
(* The remote source is a fixed sequence of liked tweets; a pagination     *)
(* token is the number of tweets that precede the page (None is 0, the     *)
(* start of history).  response.meta carries the attribute next_token      *)
(* exactly when tweets remain after the page.                              *)
(*                                                                         *)
(* A tweet's attachments are resolved through download_media, which writes *)
(* a fetched file straight to its final path in the media directory.  The  *)
(* specifications differ in what may go wrong: Spec and SpecLong kill      *)
(* processes and fail page requests, SpecLive lets every process run on,   *)
(* SpecDisk makes document writes raise, SpecMedia serves tweets with      *)
(* media, SpecE2E is the 250-tweet scenario, SpecRerun starts processes    *)
(* with any target over the documents earlier ones left.                   *)
(*                                                                         *)
(* SpecList is ListUpdater.update_following (src/feed_update.py): the ids  *)
(* the account follows are compared with a list's members and the list is  *)
(* brought in line in chunks of at most 100 ids per call.                  *)
(***************************************************************************)
EXTENDS Integers, Sequences, FiniteSets, TLC

\* ---------------------------------------------------------------- bounds
MaxItems == 3
MaxCount == 3
MaxInterval == 2
MaxRuns == 2
MaxMedia == 2
MaxList == 3

\* ------------------------------------------------------ program constants
\* min(100, remaining): the largest page the program ever asks for
MaxResults == 100
\* pagination_token of a store without checkpoint: the start of history
None == 0
\* update_list: split_list(to_add, 100), the most ids one list call takes
ChunkLength == 100

\* ------------------------------------------------------------- utilities
Min(a, b) == IF a <= b THEN a ELSE b

Range(s) == {s[i] : i \in 1..Len(s)}

Distinct(s) == \A i, j \in 1..Len(s) : s[i] = s[j] => i = j

Prefix(a, b) == Len(a) <= Len(b) /\ SubSeq(b, 1, Len(a)) = a

\* -------------------------------------------------------- remote source
\* A liked tweet as the source serves it: "ok" has its author among
\* includes.users, "noauthor" has not, "bad" makes process_tweet raise.
Kinds == {"ok", "noauthor", "bad"}

Tweet(i, k) == [id |-> i, kind |-> k]

Tweets == {Tweet(i, k) : i \in 1..MaxItems, k \in Kinds}

\* n well-formed tweets with ids 1..n
Plain(n) == [i \in 1..n |-> Tweet(i, "ok")]

\* The sources explored: every Plain(n), and every Plain(n) with one tweet
\* replaced (a repeated id, a missing author, an unprocessable tweet).
Sources ==
    UNION {{Plain(n)} \cup {[Plain(n) EXCEPT ![p] = t] : p \in 1..n, t \in Tweets}
           : n \in 0..MaxItems}

\* A media url, cut at its dots: the last piece is what download_media takes
\* for the extension (the query string it strips is left out).
Urls == {<<"img", "png">>, <<"img", "webp">>}

\* a media key whose media is not among includes.media, or has no url
NoUrl == <<>>

MediaRefs == Urls \cup {NoUrl}

\* the extensions download_media keeps; any other becomes 'jpg'
KnownExts == {"jpg", "jpeg", "png", "gif", "mp4"}

\* ext = media_url.split('.')[-1], 'jpg' unless it is a known one
Ext(url) == IF url[Len(url)] \in KnownExts THEN url[Len(url)] ELSE "jpg"

\* filepath = media_dir/{tweet_id}_{media_index}.{ext}
Path(tweet_id, media_index, url) == <<tweet_id, media_index, Ext(url)>>

Paths == (1..MaxItems) \X (0..(MaxMedia - 1)) \X {Ext(u) : u \in Urls}

\* local_path of a media whose download returned None
NoPath == <<>>

NoDownloads == [calls |-> 0, gets |-> 0, fails |-> 0]

\* The remote may serve fewer tweets per page than max_results asks for.
PageCaps == {2, MaxResults}

Counts == 1..MaxCount

Intervals == 1..MaxInterval

VARIABLES
    source,             \* the remote source's liked tweets, newest first
    pageCap,            \* the remote's own page limit
    tweetsFile,         \* liked_tweets.json
    checkpointFile,     \* checkpoint.json
    pc,                 \* the process's position ("idle": no process)
    count,              \* fetch_liked_tweets argument
    save_interval,      \* fetch_liked_tweets argument
    tweets_data,        \* self.tweets_data (ids, in list order)
    pagination_token,   \* local of fetch_liked_tweets
    tweets_fetched,     \* local of fetch_liked_tweets
    existing_ids,       \* local of fetch_liked_tweets
    response,           \* the page being processed
    idx,                \* position of the for loop in response.data
    flushFrom,          \* which save is running: periodic, final, except
    runs,               \* processes started so far
    hist,               \* how each earlier process ended
    requests,           \* this process's page requests so far
    reqCursor,          \* the cursor of this process's latest page request
    flushes,            \* this process's completed saves
    failedAt,           \* flushes when this process's except block was entered, else -1
    maxRuns,            \* how many processes the job may start
    consumed,           \* cursors of the pages whose tweets were all handled
    arrival,            \* ids in the order of their first acceptance
    attachments,        \* tweet id -> the media its attachments refer to
    download_media,     \* fetch_liked_tweets argument
    mediaDir,           \* the media directory: path -> absent, partial, complete
    downloads,          \* path -> download_media calls, requests.get calls, failed gets
    media,              \* tweet_data["media"] of the tweet in hand (local paths)
    mi,                 \* position of the media loop in attachments['media_keys']
    recorded,           \* tweet id -> tweet_data["media"] as it was appended
    ioErrors,           \* the documents whose writes raised in this process
    persisted,          \* the Dataset document as it was last written in full
    friends,            \* feed_update: the ids the account follows, as the remote lists them
    follows,            \* ListUpdater.follows
    listMembers,        \* the members of the remote list
    current_list_ids,   \* local of update_following
    to_add,             \* local of update_following
    to_remove,          \* local of update_following
    add_chunks,         \* update_list: chunks still to be passed to add_list_members
    remove_chunks,      \* update_list: chunks still to be passed to remove_list_members
    listCalls,          \* add_list_members and remove_list_members calls made
    lpc                 \* position of update_following ("off": no ListUpdater)

store == <<tweetsFile, checkpointFile>>
env == <<source, pageCap, maxRuns, attachments, download_media>>
cache == <<mediaDir, downloads>>
item == <<media, mi>>
feed == <<friends, follows, listMembers, current_list_ids, to_add, to_remove, add_chunks,
          remove_chunks, listCalls, lpc>>
args == <<count, save_interval>>
locals == <<tweets_data, pagination_token, tweets_fetched, existing_ids>>
page == <<response, idx>>
request == <<requests, reqCursor>>
job == <<runs, hist>>
vars == <<source, pageCap, tweetsFile, checkpointFile, pc, count, save_interval,
          tweets_data, pagination_token, tweets_fetched, existing_ids, response,
          idx, flushFrom, runs, hist, requests, reqCursor, flushes, failedAt,
          maxRuns, consumed, arrival, attachments, download_media, mediaDir,
          downloads, media, mi, recorded, ioErrors, persisted, friends, follows,
          listMembers, current_list_ids, to_add, to_remove, add_chunks, remove_chunks,
          listCalls, lpc>>

\* ------------------------------------------------------ persistent store
NoFile == [st |-> "none", data |-> <<>>]
TornFile == [st |-> "torn", data |-> <<>>]
TweetsDoc(d) == [st |-> "ok", data |-> d]

NoCheckpoint == [st |-> "none", pagination_token |-> None, tweets_fetched |-> 0]
TornCheckpoint == [st |-> "torn", pagination_token |-> None, tweets_fetched |-> 0]
\* variant: save_checkpoint called without tweets_fetched, its default 0
CheckpointDocDefault(t, n) == [st |-> "ok", pagination_token |-> t, tweets_fetched |-> 0]

\* the document save_checkpoint writes
CheckpointDoc(t, n) == [st |-> "ok", pagination_token |-> t, tweets_fetched |-> n]

\* variant: the existing document is never read, every process starts from []
load_existing_tweets_none(f) == <<>>

\* load_existing_tweets: the list, or [] when the file is absent or unreadable
load_existing_tweets(f) == IF f.st = "ok" THEN f.data ELSE <<>>

\* variant: the checkpoint is never read, every process starts at None
load_checkpoint_none(f) == None

\* load_checkpoint followed by checkpoint.get('pagination_token')
load_checkpoint(f) == IF f.st = "ok" THEN f.pagination_token ELSE None

NoResponse == [data |-> <<>>, has_next |-> FALSE, next_token |-> None]

\* variant: the remote hands back the cursor it was given
get_liked_tweets_stuck(src, cap, token, max_results) ==
    LET last == Min(token + Min(max_results, cap), Len(src))
    IN  [data |-> SubSeq(src, token + 1, last),
         has_next |-> last < Len(src),
         next_token |-> token]

\* client.get_liked_tweets(max_results, pagination_token)
get_liked_tweets(src, cap, token, max_results) ==
    LET last == Min(token + Min(max_results, cap), Len(src))
    IN  [data |-> SubSeq(src, token + 1, last),
         has_next |-> last < Len(src),
         next_token |-> last]

\* variant: always the largest page
BatchSizeFull(c, fetched) == MaxResults

\* batch_size = min(100, count - tweets_fetched)
BatchSize(c, fetched) == Min(MaxResults, c - fetched)

\* variant: the membership test never succeeds
IsKnownNever(id, ids) == FALSE

\* str(tweet.id) in existing_ids
IsKnown(id, ids) == id \in ids

\* variant: every tweet is taken to have its author
HasAuthorAlways(t) == TRUE

\* users_dict.get(tweet.author_id) is not None
HasAuthor(t) == t.kind # "noauthor"

\* process_tweet raises (an attribute of the tweet or author is missing)
ProcessRaises(t) == t.kind = "bad"

\* variant: no periodic save
SaveDueNever(fetched, interval) == FALSE

\* variant: the period doubled
SaveDueDouble(fetched, interval) == fetched % (2 * interval) = 0

\* variant: the test inverted
SaveDueInverted(fetched, interval) == fetched % interval # 0

\* tweets_fetched % save_interval == 0
SaveDue(fetched, interval) == fetched % interval = 0

\* variant: the loop is entered whatever the counter
LoopTestAlways(fetched, c) == TRUE

\* variant: <= for <
LoopTestInclusive(fetched, c) == fetched <= c

\* while tweets_fetched < count
LoopTest(fetched, c) == fetched < c

\* if tweets_fetched >= count: break
BreakDue(fetched, c) == fetched >= c

\* variant: the checkpoint takes the cursor that follows the page in hand
SavedTokenNext(token, r) == IF r.has_next THEN r.next_token ELSE token

\* save_checkpoint(pagination_token=pagination_token, ...): the local as it stands
SavedToken(token, r) == token

\* variant: the except block without its raise
AfterSaveSwallow(from) == IF from = "periodic" THEN "page" ELSE "returned"

\* where control goes once save_checkpoint has returned: on with the for loop,
\* to the return statement, or to the except block's raise
AfterSave(from) ==
    CASE from = "periodic" -> "page"
      [] from = "final" -> "returned"
      [] OTHER -> "raised"

\* tweet.attachments['media_keys'] resolved through media_dict; empty for a
\* tweet without attachments
MediaKeys(id) == IF id \in DOMAIN attachments THEN attachments[id] ELSE <<>>

\* variant: the media directory is never consulted
ExistsNever(dir, p) == FALSE

\* os.path.exists(filepath)
Exists(dir, p) == dir[p] # "absent"

\* variant: download_media without its except clause
AfterDownloadEscapes(raised) == IF raised THEN "save_tweets_data" ELSE "page"

\* download_media returns, a path or None: on with the media loop
AfterDownload(raised) == "page"

\* variant: a failed write is logged and the process carries on
AfterWriteErrorSwallow(from) == IF from = "periodic" THEN "page" ELSE "returned"

\* where control goes when a document write raises: from the periodic save
\* (inside the try) to the except block, from the except block's save and
\* from the final save out of fetch_liked_tweets
AfterWriteError(from) == IF from = "periodic" THEN "except" ELSE "raised"

Running == {"loop", "page", "save_tweets_data", "writing_tweets",
            "save_checkpoint", "writing_checkpoint", "writing_media"}
Ended == {"returned", "returned_empty", "raised"}
Torn == {"writing_tweets", "writing_checkpoint"}

\* ------------------------------------------------------------------ Init
\* no ListUpdater at work
FeedOff ==
    /\ friends = <<>>
    /\ follows = <<>>
    /\ listMembers = {}
    /\ current_list_ids = <<>>
    /\ to_add = <<>>
    /\ to_remove = <<>>
    /\ add_chunks = <<>>
    /\ remove_chunks = <<>>
    /\ listCalls = [add |-> 0, remove |-> 0]

\* no process of the fetcher yet
InitFetcher ==
    /\ pc = "idle"
    /\ tweets_data = <<>>
    /\ pagination_token = None
    /\ tweets_fetched = 0
    /\ existing_ids = {}
    /\ response = NoResponse
    /\ idx = 1
    /\ flushFrom = "none"
    /\ runs = 0
    /\ hist = <<>>
    /\ requests = 0
    /\ reqCursor = None
    /\ flushes = 0
    /\ failedAt = -1
    /\ consumed = {}
    /\ arrival = <<>>
    /\ mediaDir = [p \in Paths |-> "absent"]
    /\ downloads = [p \in Paths |-> NoDownloads]
    /\ media = <<>>
    /\ mi = 1
    /\ recorded = <<>>
    /\ ioErrors = <<>>
    /\ persisted = <<>>

InitProcess == InitFetcher /\ FeedOff /\ lpc = "off"

Init ==
    /\ source \in Sources
    /\ pageCap \in PageCaps
    /\ tweetsFile = NoFile
    /\ checkpointFile = NoCheckpoint
    /\ count \in Counts
    /\ save_interval \in Intervals
    /\ maxRuns = MaxRuns
    /\ attachments = <<>>
    /\ download_media = TRUE
    /\ InitProcess

\* what a process leaves behind when it ends: nothing but the store
ProcessGone(how) ==
    /\ pc' = "idle"
    /\ hist' = Append(hist, [count |-> count, end |-> how])
    /\ tweets_data' = <<>>
    /\ pagination_token' = None
    /\ tweets_fetched' = 0
    /\ existing_ids' = {}
    /\ response' = NoResponse
    /\ idx' = 1
    /\ flushFrom' = "none"
    /\ requests' = 0
    /\ reqCursor' = None
    /\ flushes' = 0
    /\ failedAt' = -1
    /\ media' = <<>>
    /\ mi' = 1
    /\ ioErrors' = <<>>

\* --------------------------------------------------------------- actions
\* __init__ and fetch_liked_tweets up to the loop, get_me succeeding
Start(c, si) ==
    /\ pc = "idle"
    /\ runs < maxRuns
    /\ runs' = runs + 1
    /\ count' = c
    /\ save_interval' = si
    /\ tweets_data' = load_existing_tweets(tweetsFile)
    /\ pagination_token' = load_checkpoint(checkpointFile)
    /\ tweets_fetched' = Len(load_existing_tweets(tweetsFile))
    /\ existing_ids' = Range(load_existing_tweets(tweetsFile))
    /\ pc' = "loop"
    /\ UNCHANGED <<env, feed, persisted, cache, item, recorded, ioErrors,
                   store, page, flushFrom, hist, request, flushes, failedAt,
                   consumed, arrival>>

\* __init__ and fetch_liked_tweets with get_me failing: return []
AuthFail(c, si) ==
    /\ pc = "idle"
    /\ runs < maxRuns
    /\ runs' = runs + 1
    /\ count' = c
    /\ save_interval' = si
    /\ tweets_data' = load_existing_tweets(tweetsFile)
    /\ pc' = "returned_empty"
    /\ UNCHANGED <<env, feed, persisted, cache, item, recorded, ioErrors,
                   store, pagination_token, tweets_fetched, existing_ids, page,
                   flushFrom, hist, request, flushes, failedAt, consumed, arrival>>

\* one turn of the while loop whose page request succeeds
Fetch ==
    /\ pc = "loop"
    /\ LoopTest(tweets_fetched, count)
    /\ LET batch_size == BatchSize(count, tweets_fetched)
           r == get_liked_tweets(source, pageCap, pagination_token, batch_size)
       IN  /\ requests' = requests + 1
           /\ reqCursor' = pagination_token
           /\ IF r.data = <<>>
              THEN /\ pc' = "save_tweets_data"
                   /\ flushFrom' = "final"
                   /\ UNCHANGED page
              ELSE /\ pc' = "page"
                   /\ response' = r
                   /\ idx' = 1
                   /\ UNCHANGED flushFrom
    /\ UNCHANGED <<env, feed, persisted, cache, item, recorded, ioErrors,
                   store, args, locals, job, flushes, failedAt, consumed, arrival>>

\* one turn of the while loop whose page request raises: the except block
FetchFail ==
    /\ pc = "loop"
    /\ LoopTest(tweets_fetched, count)
    /\ requests' = requests + 1
    /\ reqCursor' = pagination_token
    /\ pc' = "save_tweets_data"
    /\ flushFrom' = "except"
    /\ failedAt' = flushes
    /\ UNCHANGED <<env, feed, persisted, cache, item, recorded, ioErrors,
                   store, args, locals, page, job, flushes, consumed, arrival>>

\* the while test fails: the final save
LoopExit ==
    /\ pc = "loop"
    /\ ~LoopTest(tweets_fetched, count)
    /\ pc' = "save_tweets_data"
    /\ flushFrom' = "final"
    /\ UNCHANGED <<env, feed, persisted, cache, item, recorded, ioErrors,
                   store, args, locals, page, job, request, flushes, failedAt,
                   consumed, arrival>>

InPage == pc = "page" /\ idx <= Len(response.data)

\* the page's cursor joins consumed once its last tweet is handled
Handled == IF idx = Len(response.data) THEN consumed \cup {pagination_token} ELSE consumed

\* if str(tweet.id) in existing_ids: continue
SkipKnown ==
    /\ InPage
    /\ IsKnown(response.data[idx].id, existing_ids)
    /\ idx' = idx + 1
    /\ consumed' = Handled
    /\ UNCHANGED <<env, feed, persisted, cache, item, recorded, ioErrors,
                   store, pc, args, locals, response, flushFrom, job, request,
                   flushes, failedAt, arrival>>

\* if not author: continue
SkipNoAuthor ==
    /\ InPage
    /\ ~IsKnown(response.data[idx].id, existing_ids)
    /\ ~HasAuthor(response.data[idx])
    /\ idx' = idx + 1
    /\ consumed' = Handled
    /\ UNCHANGED <<env, feed, persisted, cache, item, recorded, ioErrors,
                   store, pc, args, locals, response, flushFrom, job, request,
                   flushes, failedAt, arrival>>

\* process_tweet raises: the except block
ProcessFail ==
    /\ InPage
    /\ ~IsKnown(response.data[idx].id, existing_ids)
    /\ HasAuthor(response.data[idx])
    /\ ProcessRaises(response.data[idx])
    /\ pc' = "save_tweets_data"
    /\ flushFrom' = "except"
    /\ failedAt' = flushes
    /\ UNCHANGED <<env, feed, persisted, cache, item, recorded, ioErrors,
                   store, args, locals, page, job, request, flushes, consumed,
                   arrival>>

\* the media loop done: append the tweet, count it, then save if due and break
\* if the target is met
Accept ==
    /\ InPage
    /\ LET t == response.data[idx]
           fetched == tweets_fetched + 1
       IN  /\ ~IsKnown(t.id, existing_ids)
           /\ HasAuthor(t)
           /\ ~ProcessRaises(t)
           /\ mi > Len(MediaKeys(t.id))
           /\ recorded' = IF t.id \in DOMAIN attachments
                          THEN (t.id :> media) @@ recorded ELSE recorded
           /\ media' = <<>>
           /\ mi' = 1
           /\ tweets_data' = Append(tweets_data, t.id)
           /\ existing_ids' = existing_ids \cup {t.id}
           /\ tweets_fetched' = fetched
           /\ arrival' = IF t.id \in Range(arrival) THEN arrival ELSE Append(arrival, t.id)
           /\ idx' = IF BreakDue(fetched, count) THEN Len(response.data) + 1 ELSE idx + 1
           /\ IF SaveDue(fetched, save_interval)
              THEN pc' = "save_tweets_data" /\ flushFrom' = "periodic"
              ELSE UNCHANGED <<pc, flushFrom>>
    /\ consumed' = Handled
    /\ UNCHANGED <<env, feed, persisted, cache, ioErrors, store, args, pagination_token, response, job,
                   request, flushes, failedAt>>

\* the media loop stands at a media key of the new tweet in hand
AtMedia ==
    /\ InPage
    /\ ~IsKnown(response.data[idx].id, existing_ids)
    /\ HasAuthor(response.data[idx])
    /\ ~ProcessRaises(response.data[idx])
    /\ mi <= Len(MediaKeys(response.data[idx].id))

CurUrl == MediaKeys(response.data[idx].id)[mi]

\* download_media(media_url, tweet.id, i): enumerate counts from 0
CurPath == Path(response.data[idx].id, mi - 1, CurUrl)

\* media_dict has no media for the key, or the media has no url: nothing is
\* appended to tweet_data["media"]
MediaAbsent ==
    /\ AtMedia
    /\ CurUrl = NoUrl
    /\ mi' = mi + 1
    /\ UNCHANGED <<env, feed, persisted, cache, media, recorded, ioErrors, store, pc, args, locals, page,
                   flushFrom, job, request, flushes, failedAt, consumed, arrival>>

\* download_media is False: media_info is appended with local_path None
MediaNoDownload ==
    /\ AtMedia
    /\ CurUrl # NoUrl
    /\ ~download_media
    /\ media' = Append(media, NoPath)
    /\ mi' = mi + 1
    /\ UNCHANGED <<env, feed, persisted, cache, recorded, ioErrors, store, pc, args, locals, page,
                   flushFrom, job, request, flushes, failedAt, consumed, arrival>>

\* download_media: the file exists, its path is returned
MediaCached ==
    /\ AtMedia
    /\ CurUrl # NoUrl
    /\ download_media
    /\ Exists(mediaDir, CurPath)
    /\ downloads' = [downloads EXCEPT ![CurPath].calls = @ + 1]
    /\ media' = Append(media, CurPath)
    /\ mi' = mi + 1
    /\ UNCHANGED <<env, feed, persisted, mediaDir, recorded, ioErrors, store, pc, args, locals, page,
                   flushFrom, job, request, flushes, failedAt, consumed, arrival>>

\* download_media: requests.get or raise_for_status raises, None is returned
MediaGetFail ==
    /\ AtMedia
    /\ CurUrl # NoUrl
    /\ download_media
    /\ ~Exists(mediaDir, CurPath)
    /\ downloads' = [downloads EXCEPT ![CurPath] =
                        [calls |-> @.calls + 1, gets |-> @.gets + 1, fails |-> @.fails + 1]]
    /\ media' = Append(media, NoPath)
    /\ mi' = mi + 1
    /\ pc' = AfterDownload(TRUE)
    /\ UNCHANGED <<env, feed, persisted, mediaDir, recorded, ioErrors, store, args, locals, page,
                   flushFrom, job, request, flushes, failedAt, consumed, arrival>>

\* download_media: the content is fetched and open(filepath, 'wb') creates the
\* file at its final path, still empty
MediaOpen ==
    /\ AtMedia
    /\ CurUrl # NoUrl
    /\ download_media
    /\ ~Exists(mediaDir, CurPath)
    /\ downloads' = [downloads EXCEPT ![CurPath] =
                        [calls |-> @.calls + 1, gets |-> @.gets + 1, fails |-> @.fails]]
    /\ mediaDir' = [mediaDir EXCEPT ![CurPath] = "partial"]
    /\ pc' = "writing_media"
    /\ UNCHANGED <<env, feed, persisted, item, recorded, ioErrors, store, args, locals, page,
                   flushFrom, job, request, flushes, failedAt, consumed, arrival>>

\* download_media: f.write(response.content) and close, the path is returned
MediaWrite ==
    /\ pc = "writing_media"
    /\ mediaDir' = [mediaDir EXCEPT ![CurPath] = "complete"]
    /\ media' = Append(media, CurPath)
    /\ mi' = mi + 1
    /\ pc' = AfterDownload(FALSE)
    /\ UNCHANGED <<env, feed, persisted, downloads, recorded, ioErrors, store, args, locals, page,
                   flushFrom, job, request, flushes, failedAt, consumed, arrival>>

\* download_media: f.write raises, the file stays as far as it was written and
\* None is returned
MediaWriteFail ==
    /\ pc = "writing_media"
    /\ media' = Append(media, NoPath)
    /\ mi' = mi + 1
    /\ pc' = AfterDownload(TRUE)
    /\ UNCHANGED <<env, feed, persisted, cache, recorded, ioErrors, store, args, locals, page,
                   flushFrom, job, request, flushes, failedAt, consumed, arrival>>

\* after the for loop: take response.meta.next_token, or break to the final save
PageEnd ==
    /\ pc = "page"
    /\ idx > Len(response.data)
    /\ IF response.has_next
       THEN /\ pagination_token' = response.next_token
            /\ pc' = "loop"
            /\ UNCHANGED flushFrom
       ELSE /\ pc' = "save_tweets_data"
            /\ flushFrom' = "final"
            /\ UNCHANGED pagination_token
    /\ UNCHANGED <<env, feed, persisted, cache, item, recorded, ioErrors,
                   store, args, tweets_data, tweets_fetched, existing_ids, page, job,
                   request, flushes, failedAt, consumed, arrival>>

\* save_tweets_data: open(self.tweets_file, 'w') truncates the document
OpenTweets ==
    /\ pc = "save_tweets_data"
    /\ tweetsFile' = TornFile
    /\ pc' = "writing_tweets"
    /\ UNCHANGED <<env, feed, persisted, cache, item, recorded, ioErrors,
                   checkpointFile, args, locals, page, flushFrom, job, request,
                   flushes, failedAt, consumed, arrival>>

\* save_tweets_data: json.dump(self.tweets_data, f) and close
DumpTweets ==
    /\ pc = "writing_tweets"
    /\ tweetsFile' = TweetsDoc(tweets_data)
    /\ persisted' = tweets_data
    /\ pc' = "save_checkpoint"
    /\ UNCHANGED <<env, feed, cache, item, recorded, ioErrors,
                   checkpointFile, args, locals, page, flushFrom, job, request,
                   flushes, failedAt, consumed, arrival>>

\* save_checkpoint: open(self.checkpoint_file, 'w') truncates the document
OpenCheckpoint ==
    /\ pc = "save_checkpoint"
    /\ checkpointFile' = TornCheckpoint
    /\ pc' = "writing_checkpoint"
    /\ UNCHANGED <<env, feed, persisted, cache, item, recorded, ioErrors,
                   tweetsFile, args, locals, page, flushFrom, job, request,
                   flushes, failedAt, consumed, arrival>>

\* save_checkpoint: json.dump(checkpoint, f) and close; then on with the caller
DumpCheckpoint ==
    /\ pc = "writing_checkpoint"
    /\ checkpointFile' = CheckpointDoc(SavedToken(pagination_token, response), tweets_fetched)
    /\ flushes' = flushes + 1
    /\ pc' = AfterSave(flushFrom)
    /\ flushFrom' = "none"
    /\ UNCHANGED <<env, feed, persisted, cache, item, recorded, ioErrors,
                   tweetsFile, args, locals, page, job, request, failedAt,
                   consumed, arrival>>

\* a document write has raised: on to the except block or out of the function
WriteRaises(doc) ==
    /\ ioErrors' = Append(ioErrors, doc)
    /\ IF AfterWriteError(flushFrom) = "except"
       THEN /\ pc' = "save_tweets_data"
            /\ flushFrom' = "except"
            /\ failedAt' = flushes
       ELSE /\ pc' = AfterWriteError(flushFrom)
            /\ flushFrom' = "none"
            /\ UNCHANGED failedAt

\* save_tweets_data raises: in open (the document is as it was) or in
\* json.dump (the document stays truncated)
TweetsWriteFail ==
    /\ pc \in {"save_tweets_data", "writing_tweets"}
    /\ WriteRaises("tweets")
    /\ UNCHANGED <<env, feed, persisted, cache, item, recorded, store, args, locals, page, job, request,
                   flushes, consumed, arrival>>

\* save_checkpoint raises, in open or in json.dump
CheckpointWriteFail ==
    /\ pc \in {"save_checkpoint", "writing_checkpoint"}
    /\ WriteRaises("checkpoint")
    /\ UNCHANGED <<env, feed, persisted, cache, item, recorded, store, args, locals, page, job, request,
                   flushes, consumed, arrival>>

\* the process is killed
Kill ==
    /\ pc \in Running
    /\ runs < maxRuns
    /\ ProcessGone(IF pc \in Torn THEN "torn"
                   ELSE IF flushes = 0 THEN "killed_early" ELSE "killed")
    /\ UNCHANGED <<env, feed, persisted, cache, recorded, store, args, runs, consumed, arrival>>

\* fetch_liked_tweets has returned or raised: main ends
Exit ==
    /\ pc \in Ended
    /\ runs < maxRuns
    /\ ProcessGone(IF pc = "returned" THEN "returned"
                   ELSE IF pc = "raised" THEN "raised" ELSE "auth")
    /\ UNCHANGED <<env, feed, persisted, cache, recorded, store, args, runs, consumed, arrival>>

Next ==
    \/ Start(count, save_interval)
    \/ AuthFail(count, save_interval)
    \/ Fetch
    \/ FetchFail
    \/ LoopExit
    \/ SkipKnown
    \/ SkipNoAuthor
    \/ ProcessFail
    \/ Accept
    \/ PageEnd
    \/ OpenTweets
    \/ DumpTweets
    \/ OpenCheckpoint
    \/ DumpCheckpoint
    \/ Kill
    \/ Exit

\* The job: one target and one save interval, up to MaxRuns processes, any
\* source of Sources, kills anywhere.
Spec == Init /\ [][Next]_vars

\* ------------------------------------------------- a longer job, one target
\* One more process than Spec allows, on the longest sources, saving after
\* every tweet.
InitLong ==
    /\ source \in {s \in Sources : Len(s) = MaxItems}
    /\ pageCap = 2
    /\ tweetsFile = NoFile
    /\ checkpointFile = NoCheckpoint
    /\ count = MaxCount
    /\ save_interval = 1
    /\ maxRuns = MaxRuns + 1
    /\ attachments = <<>>
    /\ download_media = TRUE
    /\ InitProcess

SpecLong == InitLong /\ [][Next]_vars

\* ------------------------------------------------- processes left to run
\* The job of Spec with no process killed, every page request answered and
\* get_me succeeding: a process that is not killed takes its next step, the
\* program being one sequential thread.
NextLive ==
    \/ Start(count, save_interval)
    \/ Fetch
    \/ LoopExit
    \/ SkipKnown
    \/ SkipNoAuthor
    \/ ProcessFail
    \/ Accept
    \/ PageEnd
    \/ OpenTweets
    \/ DumpTweets
    \/ OpenCheckpoint
    \/ DumpCheckpoint
    \/ Exit

SpecLive == Init /\ [][NextLive]_vars /\ WF_vars(NextLive)

\* ------------------------------------------------- a job run again
\* Processes that run to their end one after the other on the same store,
\* each with a target of its own (smaller, equal or larger than the one
\* before); page requests and process_tweet may fail.
StartAny == \E c \in Counts : Start(c, save_interval)

NextRerun ==
    \/ StartAny
    \/ Fetch
    \/ FetchFail
    \/ LoopExit
    \/ SkipKnown
    \/ SkipNoAuthor
    \/ ProcessFail
    \/ Accept
    \/ PageEnd
    \/ OpenTweets
    \/ DumpTweets
    \/ OpenCheckpoint
    \/ DumpCheckpoint
    \/ Exit

SpecRerun == Init /\ [][NextRerun]_vars

\* ------------------------------------------------- document writes that fail
\* One process on any source of Sources whose document writes may raise (disk
\* full, permission), as may its page requests and process_tweet.
InitDisk ==
    /\ source \in Sources
    /\ pageCap \in PageCaps
    /\ tweetsFile = NoFile
    /\ checkpointFile = NoCheckpoint
    /\ count \in Counts
    /\ save_interval \in Intervals
    /\ maxRuns = 1
    /\ attachments = <<>>
    /\ download_media = TRUE
    /\ InitProcess

NextDisk ==
    \/ Start(count, save_interval)
    \/ Fetch
    \/ FetchFail
    \/ LoopExit
    \/ SkipKnown
    \/ SkipNoAuthor
    \/ ProcessFail
    \/ Accept
    \/ PageEnd
    \/ OpenTweets
    \/ DumpTweets
    \/ OpenCheckpoint
    \/ DumpCheckpoint
    \/ TweetsWriteFail
    \/ CheckpointWriteFail

SpecDisk == InitDisk /\ [][NextDisk]_vars

\* ------------------------------------------------- tweets with attachments
\* Up to two well-formed tweets in one page: the first with 1..MaxMedia media
\* keys, the second with none or one; two processes, kills anywhere.
MediaLists == UNION {[1..n -> MediaRefs] : n \in 1..MaxMedia}

InitMedia ==
    /\ source \in {Plain(1), Plain(2)}
    /\ pageCap = 2
    /\ tweetsFile = NoFile
    /\ checkpointFile = NoCheckpoint
    /\ count \in 1..2
    /\ save_interval \in 1..2
    /\ maxRuns = 2
    /\ attachments \in {(1 :> m) : m \in MediaLists}
                      \cup {(1 :> m) @@ (2 :> <<<<"img", "png">>>>) : m \in MediaLists}
    /\ download_media \in BOOLEAN
    /\ InitProcess

NextMedia ==
    \/ Start(count, save_interval)
    \/ Fetch
    \/ LoopExit
    \/ SkipKnown
    \/ MediaAbsent
    \/ MediaNoDownload
    \/ MediaCached
    \/ MediaGetFail
    \/ MediaOpen
    \/ MediaWrite
    \/ MediaWriteFail
    \/ Accept
    \/ PageEnd
    \/ OpenTweets
    \/ DumpTweets
    \/ OpenCheckpoint
    \/ DumpCheckpoint
    \/ Kill
    \/ Exit

SpecMedia == InitMedia /\ [][NextMedia]_vars

\* ------------------------------------------------- the end-to-end scenario
\* 250 well-formed tweets served as pages of 100/100/50; a first process with
\* one of the targets of first and save_interval 50 runs undisturbed, then a
\* second process with target 250.
E2E == [tweets |-> 250, first |-> {1, 100, 101, 200, 250}, then |-> 250, save_interval |-> 50]

InitE2E ==
    /\ source = [i \in 1..E2E.tweets |-> Tweet(i, "ok")]
    /\ pageCap = MaxResults
    /\ tweetsFile = NoFile
    /\ checkpointFile = NoCheckpoint
    /\ count = 0
    /\ save_interval = E2E.save_interval
    /\ maxRuns = 2
    /\ attachments = <<>>
    /\ download_media = TRUE
    /\ InitProcess

StartE2E ==
    IF runs = 0
    THEN \E c \in E2E.first : Start(c, E2E.save_interval)
    ELSE Start(E2E.then, E2E.save_interval)

NextE2E ==
    \/ StartE2E
    \/ Fetch
    \/ LoopExit
    \/ Accept
    \/ PageEnd
    \/ OpenTweets
    \/ DumpTweets
    \/ OpenCheckpoint
    \/ DumpCheckpoint
    \/ Exit

SpecE2E == InitE2E /\ [][NextE2E]_vars

\* ------------------------------------------------- feed_update.ListUpdater
\* [id for id in follows_ids if id not in current_list_ids]
find_new_follows(current, follows_ids) ==
    SelectSeq(follows_ids, LAMBDA id : id \notin Range(current))

\* [id for id in current_list_ids if id not in follows_ids]
find_old_follows(current, follows_ids) ==
    SelectSeq(current, LAMBDA id : id \notin Range(follows_ids))

find_diff(follows_ids, current) ==
    [to_add |-> find_new_follows(current, follows_ids),
     to_remove |-> find_old_follows(current, follows_ids)]

\* variant: the slice for the remainder is left out
split_list_floor(input_list, chunk_length) ==
    [i \in 1..(Len(input_list) \div chunk_length)
        |-> SubSeq(input_list, (i - 1) * chunk_length + 1, i * chunk_length)]

\* num_slices slices input_list[i*chunk_length:(i+1)*chunk_length]
split_list(input_list, chunk_length) ==
    LET num_slices == (Len(input_list) \div chunk_length)
                      + (IF Len(input_list) % chunk_length # 0 THEN 1 ELSE 0)
    IN  [i \in 1..num_slices
            |-> SubSeq(input_list, (i - 1) * chunk_length + 1,
                       Min(i * chunk_length, Len(input_list)))]

\* ids a..b in order
Wide(a, b) == [i \in 1..(b - a + 1) |-> a + i - 1]

\* The id lists explored: every list of up to MaxList ids out of 1..MaxList
\* (repeats included), and three long ones that need more than one chunk.
IdLists ==
    UNION {[1..n -> 1..MaxList] : n \in 0..MaxList}
    \cup {Wide(1, 250), Wide(101, 350), Wide(251, 300)}

\* One ListUpdater, the fetcher idle: any followed ids, any list members;
\* self.follows = None is the empty sequence, which "not self.follows" treats alike.
InitList ==
    /\ source = <<>>
    /\ pageCap = MaxResults
    /\ tweetsFile = NoFile
    /\ checkpointFile = NoCheckpoint
    /\ count = 1
    /\ save_interval = 1
    /\ maxRuns = 0
    /\ attachments = <<>>
    /\ download_media = TRUE
    /\ InitFetcher
    /\ friends \in IdLists
    /\ follows = <<>>
    /\ current_list_ids = <<>>
    /\ listMembers \in {Range(l) : l \in IdLists}
    /\ to_add = <<>>
    /\ to_remove = <<>>
    /\ add_chunks = <<>>
    /\ remove_chunks = <<>>
    /\ listCalls = [add |-> 0, remove |-> 0]
    /\ lpc = "start"

fetcher == <<env, persisted, cache, item, recorded, ioErrors, store, pc, args, locals, page,
             flushFrom, job, request, flushes, failedAt, consumed, arrival>>

\* update_following up to the first list call: get_follows unless follows is
\* there, get_current_list, find_diff, and update_list's two split_list calls
UpdateFollowing ==
    /\ lpc = "start"
    /\ \E listing \in IdLists :
          /\ Range(listing) = listMembers
          /\ LET fl == IF follows = <<>> THEN friends ELSE follows
                 diff == find_diff(fl, listing)
             IN  /\ follows' = fl
                 /\ current_list_ids' = listing
                 /\ to_add' = diff.to_add
                 /\ to_remove' = diff.to_remove
                 /\ add_chunks' = split_list(diff.to_add, ChunkLength)
                 /\ remove_chunks' = split_list(diff.to_remove, ChunkLength)
    /\ lpc' = "update_list"
    /\ UNCHANGED <<fetcher, friends, listMembers, listCalls>>

\* update_list: api.add_list_members for the next chunk of to_add
AddListMembers ==
    /\ lpc = "update_list"
    /\ add_chunks # <<>>
    /\ listMembers' = listMembers \cup Range(Head(add_chunks))
    /\ add_chunks' = Tail(add_chunks)
    /\ listCalls' = [listCalls EXCEPT !.add = @ + 1]
    /\ UNCHANGED <<fetcher, friends, follows, current_list_ids, to_add, to_remove,
                   remove_chunks, lpc>>

\* update_list: api.remove_list_members for the next chunk of to_remove, once
\* every add chunk has been passed
RemoveListMembers ==
    /\ lpc = "update_list"
    /\ add_chunks = <<>>
    /\ remove_chunks # <<>>
    /\ listMembers' = listMembers \ Range(Head(remove_chunks))
    /\ remove_chunks' = Tail(remove_chunks)
    /\ listCalls' = [listCalls EXCEPT !.remove = @ + 1]
    /\ UNCHANGED <<fetcher, friends, follows, current_list_ids, to_add, to_remove,
                   add_chunks, lpc>>

\* update_list and update_following return
UpdateDone ==
    /\ lpc = "update_list"
    /\ add_chunks = <<>>
    /\ remove_chunks = <<>>
    /\ lpc' = "done"
    /\ UNCHANGED <<fetcher, friends, follows, listMembers, current_list_ids, to_add,
                   to_remove, add_chunks, remove_chunks, listCalls>>

\* update_list: a list call raises and update_following ends with it
ListCallRaises ==
    /\ lpc = "update_list"
    /\ add_chunks # <<>> \/ remove_chunks # <<>>
    /\ lpc' = "raised"
    /\ UNCHANGED <<fetcher, friends, follows, listMembers, current_list_ids, to_add,
                   to_remove, add_chunks, remove_chunks, listCalls>>

NextList ==
    \/ UpdateFollowing
    \/ AddListMembers
    \/ RemoveListMembers
    \/ ListCallRaises
    \/ UpdateDone

SpecList == InitList /\ [][NextList]_vars

\* ------------------------------------------------------------ the claims
\* ids of the tweets the source serves well-formed
WellFormedIds(src) == {src[i].id : i \in {j \in 1..Len(src) : src[j].kind = "ok"}}

\* the source serves no tweet that process_tweet cannot process
Processable(src) == \A i \in 1..Len(src) : ~ProcessRaises(src[i])

HistEnds == [i \in 1..Len(hist) |-> hist[i].end]

\* what one undisturbed process collects from an empty store: the tweets of
\* src in order, known ids and tweets without author left out, up to c of them
RECURSIVE Collect(_, _, _, _)
Collect(src, i, c, acc) ==
    IF i > Len(src) \/ Len(acc) >= c THEN acc
    ELSE IF src[i].id \in Range(acc) \/ src[i].kind # "ok"
         THEN Collect(src, i + 1, c, acc)
         ELSE Collect(src, i + 1, c, Append(acc, src[i].id))

Uninterrupted(src, c) == Collect(src, 1, c, <<>>)

C2_DedupInvariant ==
    /\ [](Distinct(tweets_data) /\ Distinct(tweetsFile.data))
    /\ [][(InPage /\ IsKnown(response.data[idx].id, existing_ids) /\ pc' # "idle")
          => (/\ tweets_data' = tweets_data
              /\ tweets_fetched' = tweets_fetched
              /\ existing_ids' = existing_ids
              /\ pc' = "page"
              /\ idx' = idx + 1
              /\ failedAt' = failedAt)]_vars

C2_Witness ==
    /\ pc = "page"
    /\ idx > Len(response.data)
    /\ tweets_fetched < count
    /\ \E i, j \in 1..Len(response.data) :
          /\ i < j
          /\ response.data[i].id = response.data[j].id
          /\ response.data[i].kind = "ok"
          /\ response.data[j].kind = "ok"
    /\ tweetsFile.st = "ok"
    /\ Distinct(tweets_data)

\* C3 -- Checkpoint/Dataset consistency: wherever the process may stop outside
\* a document write (after a completed save, and between the two writes of a
\* save), the persisted Checkpoint's tweets_fetched is at most the number of
\* tweets in the persisted Dataset document.
C3_CheckpointWithinDataset ==
    (pc \notin Torn /\ checkpointFile.st = "ok" /\ tweetsFile.st = "ok")
    => checkpointFile.tweets_fetched <= Len(tweetsFile.data)

\* C4 -- Interrupt-and-resume loses nothing: when every earlier process of the
\* job was killed (at any point, document writes included) and the present
\* one returns, the persisted Dataset is the sequence an uninterrupted
\* process with that target collects from the same source.
C4_ResumeLosesNothing ==
    (/\ pc = "returned"
     /\ Len(hist) > 0
     /\ Range(HistEnds) \subseteq {"killed", "killed_early", "torn"}
     /\ Processable(source))
    => tweetsFile = TweetsDoc(Uninterrupted(source, count))

\* the same with every kill outside the document writes
C4_KilledBetweenWrites ==
    (/\ pc = "returned"
     /\ Len(hist) > 0
     /\ Range(HistEnds) \subseteq {"killed", "killed_early"}
     /\ Processable(source))
    => tweetsFile = TweetsDoc(Uninterrupted(source, count))

\* position of id x in the order of first acceptance
ArrivalRank(x) == CHOOSE i \in 1..Len(arrival) : arrival[i] = x

InArrivalOrder(d) ==
    \A i, j \in 1..Len(d) : i < j => ArrivalRank(d[i]) < ArrivalRank(d[j])

\* C5 -- Order preservation: the in-memory Dataset and the persisted Dataset
\* document list their tweets in the order in which the tweets were first
\* accepted, across resumes.
C5_ArrivalOrder ==
    /\ InArrivalOrder(tweets_data)
    /\ InArrivalOrder(tweetsFile.data)

\* C6 -- Checkpoint cursor semantics: the pagination_token of the persisted
\* Checkpoint is never the cursor of a page whose tweets have all been
\* handled, so a process started from it does not request that page again.
C6_CursorAfterConsumed ==
    checkpointFile.st = "ok" => checkpointFile.pagination_token \notin consumed

FirstRunReturned(c) == pc = "returned" /\ runs = 1 /\ count = c

\* ceil(n / MaxResults)
PagesFor(n) == (n + MaxResults - 1) \div MaxResults

\* C7 -- End-to-end page count: on the 250-tweet source served as pages of
\* 100/100/50 and an empty store, a process with target N (200 in the
\* scenario) and save_interval 50 returns having made exactly ceil(N/100) page
\* requests (2 for 200) with exactly N tweets in the Dataset.
C7_PageCount ==
    (pc = "returned" /\ runs = 1)
    => /\ requests = PagesFor(count)
       /\ count = 200 => requests = 2
       /\ Len(tweets_data) = count
       /\ tweetsFile = TweetsDoc(tweets_data)

C7_Witness == FirstRunReturned(200) /\ requests = 2 /\ Len(tweetsFile.data) = 200

\* C8 (as claimed) -- End-to-end flush count: the process with target 200 and
\* save_interval 50 performs exactly 4 saves from start to return.
C8_FourFlushes == FirstRunReturned(200) => flushes = 4

\* C8 (amended) -- that process performs exactly 5 saves: 4 periodic ones, at
\* 50, 100, 150 and 200 tweets, and the final save before it returns.
C8_FiveFlushes == FirstRunReturned(200) => flushes = 5

C8_Witness == FirstRunReturned(200) /\ flushes = 5 /\ Len(tweetsFile.data) = 200

SecondRunAfter(c) ==
    /\ runs = 2
    /\ hist = <<[count |-> c, end |-> "returned"]>>
    /\ count = E2E.then

\* C9 -- End-to-end continuation: after the process with target 200 has
\* returned, a process with target 250 started from the persisted documents
\* makes one page request, at the saved cursor, receives the remaining 50
\* tweets, and returns with exactly 250 tweets with pairwise distinct ids.
C9_Continuation ==
    (SecondRunAfter(200) /\ pc = "returned")
    => /\ requests = 1
       /\ reqCursor = 200
       /\ response.data = SubSeq(source, 201, 250)
       /\ Len(tweetsFile.data) = 250
       /\ Distinct(tweetsFile.data)
       /\ tweetsFile.data = tweets_data

C9_Witness ==
    /\ SecondRunAfter(200)
    /\ pc = "returned"
    /\ Len(tweetsFile.data) = 250
    /\ requests = 1

\* C10 -- Fatal failure protocol: once a page request or process_tweet has
\* raised, the process ends only by raising, never by returning, and when it
\* raises it has made exactly one save since the failure; the documents then
\* hold every tweet accepted so far, their number, and the cursor of the
\* failing page's request.
C10_FatalFailure ==
    (failedAt >= 0 /\ pc \in Ended)
    => /\ pc = "raised"
       /\ flushes = failedAt + 1
       /\ tweetsFile = TweetsDoc(tweets_data)
       /\ checkpointFile = CheckpointDoc(reqCursor, Len(tweets_data))

C10_Witness ==
    /\ pc = "raised"
    /\ failedAt >= 0
    /\ Len(tweets_data) > 0
    /\ reqCursor > 0
    /\ checkpointFile = CheckpointDoc(reqCursor, Len(tweets_data))

\* the new tweet the for loop is at was served without its author
AtMissingAuthor ==
    /\ InPage
    /\ response.data[idx].id \notin existing_ids
    /\ response.data[idx].kind = "noauthor"

\* C11 -- Missing-author recovery: a new tweet served without its author
\* record is passed over (the Dataset, the id set and the counter stay as they
\* are, no failure is entered, the for loop goes on with the next tweet);
\* no such tweet is ever in the Dataset; and a process that runs undisturbed
\* from an empty store returns with every other new tweet persisted in order,
\* the tweets of the following pages included.
C11_MissingAuthor ==
    /\ [][(AtMissingAuthor /\ pc' # "idle")
          => (/\ tweets_data' = tweets_data
              /\ tweets_fetched' = tweets_fetched
              /\ existing_ids' = existing_ids
              /\ pc' = "page"
              /\ idx' = idx + 1
              /\ failedAt' = failedAt)]_vars
    /\ [](Range(tweets_data) \cup Range(tweetsFile.data) \subseteq WellFormedIds(source))
    /\ []((pc = "returned" /\ runs = 1 /\ Processable(source))
          => tweetsFile = TweetsDoc(Uninterrupted(source, count)))

C11_Witness ==
    /\ source = [Plain(3) EXCEPT ![2] = Tweet(2, "noauthor")]
    /\ pageCap = 2
    /\ pc = "returned"
    /\ runs = 1
    /\ requests = 2
    /\ tweetsFile = TweetsDoc(<<1, 3>>)

\* C12 -- Malformed-item recovery: a tweet for which process_tweet raises is
\* passed over; while the for loop stands at such a tweet the process has not
\* entered the except block.
C12_MalformedSkipped ==
    (pc # "idle" /\ idx <= Len(response.data) /\ ProcessRaises(response.data[idx]))
    => failedAt = -1

\* download_media is about to be called for the media key in hand
AtDownload == AtMedia /\ CurUrl # NoUrl /\ download_media

C14_CachedIsComplete ==
    \A id \in DOMAIN recorded : \A k \in 1..Len(recorded[id]) :
        recorded[id][k] # NoPath => mediaDir[recorded[id][k]] = "complete"

\* number of media of the tweet that have a url
UrlCount(id) == Cardinality({k \in 1..Len(MediaKeys(id)) : MediaKeys(id)[k] # NoUrl})

\* C15 -- Download-failure isolation: when the fetch of a media fails,
\* download_media returns None, the media is recorded with local_path None and
\* the media loop goes on with the next key, no failure is entered; a process
\* that runs undisturbed returns with every tweet in the Dataset and counted,
\* each with one media record per media url, whatever downloads failed.
C15_DownloadFailureIsolated ==
    /\ [][(AtDownload /\ downloads'[CurPath].fails > downloads[CurPath].fails)
          => (/\ media' = Append(media, NoPath)
              /\ mi' = mi + 1
              /\ pc' = "page"
              /\ tweets_data' = tweets_data
              /\ failedAt' = failedAt)]_vars
    /\ [](failedAt = -1 /\ pc # "raised")
    /\ []((runs = 1 /\ pc = "returned")
          => /\ tweetsFile = TweetsDoc(Uninterrupted(source, count))
             /\ checkpointFile.tweets_fetched = Len(tweets_data)
             /\ \A id \in Range(tweets_data) \cap DOMAIN attachments :
                   /\ id \in DOMAIN recorded
                   /\ Len(recorded[id]) = UrlCount(id))

C15_Witness ==
    /\ runs = 1
    /\ pc = "returned"
    /\ 1 \in Range(tweetsFile.data)
    /\ 1 \in DOMAIN recorded
    /\ Len(recorded[1]) = 2
    /\ recorded[1][1] = NoPath
    /\ recorded[1][2] # NoPath
    /\ \E p \in Paths : p[1] = 1 /\ p[2] = 0 /\ downloads[p].fails = 1 /\ mediaDir[p] = "absent"

\* the page the next request would receive
NextPage ==
    get_liked_tweets(source, pageCap, pagination_token, BatchSize(count, tweets_fetched))

\* C16 -- Termination on exhaustion: a process whose page requests do not
\* fail always comes to an end, and to its return when process_tweet raises
\* for no tweet, whatever the source and the target; an empty page sends it to
\* the final save, a page is requested only at the start or after a page that
\* came with a next cursor, so that a process makes no more page requests than
\* the source has tweets (one for an empty source), and at the return both
\* documents have been written with the whole Dataset.
C16_Termination ==
    /\ (pc = "loop") ~> (pc \in Ended)
    /\ [](requests <= Len(source) + 1)
    /\ (pc = "loop" /\ Processable(source)) ~> (pc = "returned")
    /\ [][requests' > requests
          => /\ requests = 0 \/ response.has_next
             /\ NextPage.data = <<>> => (pc' = "save_tweets_data" /\ flushFrom' = "final")]_vars
    /\ [](pc = "returned"
          => /\ tweetsFile = TweetsDoc(tweets_data)
             /\ checkpointFile = CheckpointDoc(pagination_token, Len(tweets_data)))

C16_Witness ==
    /\ pc = "returned"
    /\ runs = 1
    /\ requests = 2
    /\ ~response.has_next
    /\ tweets_fetched < count
    /\ tweetsFile = TweetsDoc(tweets_data)

\* C17 -- Monotone progress count: when a save is about to rewrite the
\* Checkpoint, the tweets_fetched it will write is at least the tweets_fetched
\* of the Checkpoint document the previous save left, whichever process made
\* that save.
C17_MonotoneCount ==
    (pc = "save_checkpoint" /\ checkpointFile.st = "ok")
    => checkpointFile.tweets_fetched <= tweets_fetched

\* the same when no earlier process was killed inside a document write
C17_KilledBetweenWrites ==
    (pc = "save_checkpoint" /\ checkpointFile.st = "ok" /\ "torn" \notin Range(HistEnds))
    => checkpointFile.tweets_fetched <= tweets_fetched

Saving == {"save_tweets_data", "writing_tweets", "save_checkpoint", "writing_checkpoint"}

\* C18 -- Persistence failure is fatal: when a write of the Dataset or of the
\* Checkpoint raises, the Checkpoint document is left as it is by that step
\* and control leaves the save: from the periodic save to the except block's
\* save, from the except block's save and from the final save out of
\* fetch_liked_tweets by raise; after such a failure the process handles no
\* further tweet or page and, when it ends, it ends by raising.
C18_PersistenceFailureFatal ==
    /\ [][Len(ioErrors') > Len(ioErrors)
          => (/\ checkpointFile' = checkpointFile
              /\ IF flushFrom = "periodic"
                 THEN pc' = "save_tweets_data" /\ flushFrom' = "except"
                 ELSE pc' = "raised")]_vars
    /\ [][ioErrors # <<>>
          => (/\ tweets_data' = tweets_data
              /\ requests' = requests
              /\ idx' = idx)]_vars
    /\ [](ioErrors # <<>>
          => /\ pc \in Saving \cup {"raised"}
             /\ pc \in Saving => flushFrom = "except")

C18_Witness ==
    /\ pc = "raised"
    /\ ioErrors = <<"tweets">>
    /\ failedAt >= 0
    /\ flushes = failedAt + 1
    /\ Len(tweets_data) > 0
    /\ tweets_fetched < count
    /\ tweetsFile = TweetsDoc(tweets_data)

\* C19 -- Authentication failure: a process whose get_me failed ends by
\* raising; it is never at a return statement with nothing fetched.
C19_AuthFailureRaises == pc # "returned_empty"

\* the rest of C19: the step on which get_me fails requests no page, makes no
\* save and leaves both documents as they are
C19_AuthFailureLeavesStore ==
    [][pc' = "returned_empty"
       => (/\ requests' = 0
           /\ flushes' = 0
           /\ tweetsFile' = tweetsFile
           /\ checkpointFile' = checkpointFile)]_vars

\* the cursor the persisted Checkpoint holds
StoredCursor == IF checkpointFile.st = "ok" THEN checkpointFile.pagination_token ELSE None

\* C20 -- Cursor chain: a page is requested only while tweets_fetched < count;
\* a process's first request passes the persisted Checkpoint's cursor (None
\* when there is none), each later one the next cursor that came with the
\* page before, which is that page's cursor advanced by the page's length, so
\* that no tweet is requested twice or left out within a process; after a page
\* with a next cursor the loop is back at its test with that cursor, and with
\* tweets_fetched >= count the test sends the process to the final save
\* without another request.
C20_CursorChain ==
    /\ [][requests' > requests
          => (/\ tweets_fetched < count
              /\ reqCursor' = IF requests = 0 THEN StoredCursor ELSE response.next_token
              /\ requests > 0 => (/\ response.has_next
                                  /\ reqCursor' = reqCursor + Len(response.data)))]_vars
    /\ [][(pc = "page" /\ idx > Len(response.data) /\ response.has_next /\ pc' # "idle")
          => (pc' = "loop" /\ pagination_token' = response.next_token)]_vars
    /\ [][(pc = "loop" /\ tweets_fetched >= count /\ pc' # "idle")
          => (pc' = "save_tweets_data" /\ flushFrom' = "final" /\ requests' = requests)]_vars

C20_Witness ==
    /\ runs = 2
    /\ hist[1].end = "killed"
    /\ pc = "page"
    /\ requests = 1
    /\ reqCursor > 0
    /\ reqCursor = StoredCursor
    /\ tweets_fetched < count

\* C21 -- Target bound: in a process whose counter is within its target, the
\* counter and the Dataset's length stay within the target at every step (so
\* from a start with |Dataset| <= count they never exceed count); once the
\* counter has reached the target the for loop handles no further tweet of the
\* page, and no page is requested with the counter at or above the target.
C21_TargetBound ==
    /\ [][(pc # "idle" /\ tweets_fetched <= count)
          => (tweets_fetched' <= count' /\ Len(tweets_data') <= count')]_vars
    /\ []((pc = "page" /\ tweets_fetched >= count) => idx > Len(response.data))
    /\ [][requests' > requests => tweets_fetched < count]_vars

C21_Witness ==
    /\ pc = "page"
    /\ runs = 2
    /\ tweets_fetched = count
    /\ Len(tweets_data) = count
    /\ idx > Len(response.data)
    /\ response.has_next
    /\ requests = 1

\* tweets accepted since the save before, or since the start of the process
\* (the processes of SpecRerun start from documents a completed save left)
NewlyAccumulated == tweets_fetched - checkpointFile.tweets_fetched

AtPeriodicSave == pc = "save_tweets_data" /\ flushFrom = "periodic"

\* C22 (as claimed) -- Flush trigger: a periodic save starts when exactly
\* save_interval tweets have been accepted since the save before or since the
\* start of the process, also in a process that started from a Dataset whose
\* length is no multiple of save_interval.
C22_FlushEveryInterval == AtPeriodicSave => NewlyAccumulated = save_interval

\* C22 (amended) -- a periodic save starts exactly when the counter, tweets
\* loaded at the start included, becomes a multiple of save_interval, so that
\* between 1 and save_interval tweets have been accepted since the save before
\* or the start; a process that returns, or raises after a failed page request
\* or process_tweet, has made a save as its last act, and every save leaves
\* both documents rewritten from memory.
C22_FlushAtMultiples ==
    /\ [][(pc = "page" /\ tweets_fetched' = tweets_fetched + 1)
          => ((pc' = "save_tweets_data" /\ flushFrom' = "periodic")
              <=> tweets_fetched' % save_interval = 0)]_vars
    /\ [](AtPeriodicSave => NewlyAccumulated \in 1..save_interval)
    /\ [][flushes' = flushes + 1
          => (/\ tweetsFile'.st = "ok" /\ tweetsFile'.data = tweets_data
              /\ checkpointFile'.st = "ok"
              /\ checkpointFile'.tweets_fetched = tweets_fetched
              /\ checkpointFile'.pagination_token = pagination_token)]_vars
    /\ [][(pc' \in {"returned", "raised"} /\ pc # pc') => flushes' = flushes + 1]_vars

C22_Witness ==
    /\ AtPeriodicSave
    /\ runs = 2
    /\ save_interval = 2
    /\ NewlyAccumulated = 1
    /\ tweets_fetched = 2

\* the tweet the for loop is at is passed over: its id is known, or it was
\* served without its author
AtSkipped ==
    /\ InPage
    /\ \/ response.data[idx].id \in existing_ids
       \/ response.data[idx].kind = "noauthor"

\* C23 -- Counter/accumulator invariant: a process starts with tweets_data the
\* readable Dataset document, existing_ids its set of ids and tweets_fetched
\* its length; throughout the process tweets_fetched = |tweets_data| =
\* |existing_ids| and existing_ids is the set of ids of tweets_data;
\* existing_ids never loses an id, and a tweet that is passed over changes
\* none of the three.
C23_CounterAccumulator ==
    /\ [][(pc = "idle" /\ pc' = "loop")
          => (/\ tweets_data' = IF tweetsFile.st = "ok" THEN tweetsFile.data ELSE <<>>
              /\ existing_ids' = Range(tweets_data')
              /\ tweets_fetched' = Len(tweets_data'))]_vars
    /\ [](pc \in Running \cup {"returned", "raised"}
          => /\ tweets_fetched = Len(tweets_data)
             /\ tweets_fetched = Cardinality(existing_ids)
             /\ existing_ids = Range(tweets_data))
    /\ [][(pc # "idle" /\ pc' # "idle") => existing_ids \subseteq existing_ids']_vars
    /\ [][(AtSkipped /\ pc' # "idle")
          => (/\ tweets_data' = tweets_data
              /\ existing_ids' = existing_ids
              /\ tweets_fetched' = tweets_fetched)]_vars

C23_Witness ==
    /\ runs = 2
    /\ AtPeriodicSave
    /\ source = [Plain(3) EXCEPT ![2] = Tweet(2, "noauthor")]
    /\ tweetsFile = TweetsDoc(<<1>>)
    /\ tweets_data = <<1, 3>>
    /\ existing_ids = {1, 3}
    /\ tweets_fetched = 2

\* C24 -- Batch size: every page request is made with min(100, count -
\* tweets_fetched) still to fetch, a number between 1 and 100; the page that
\* comes back is the one the remote serves for that size, and it holds no more
\* tweets than are still needed to reach the target.
C24_BatchSize ==
    [][requests' > requests
       => LET remaining == count - tweets_fetched
              asked == IF remaining < MaxResults THEN remaining ELSE MaxResults
          IN  /\ asked \in 1..MaxResults
              /\ pc' = "page"
                 => /\ response' = get_liked_tweets(source, pageCap, pagination_token, asked)
                    /\ Len(response'.data) <= remaining]_vars

C24_Witness ==
    /\ pc = "page"
    /\ runs = 1
    /\ count = 101
    /\ requests = 2
    /\ tweets_fetched = 100
    /\ Len(response.data) = 1
    /\ response.has_next

\* C25 -- Append-only persistence: whenever a save has opened the Dataset
\* document for rewriting, the list it is about to write extends the document
\* as it was last written in full, by this process or by an earlier one.
C25_AppendOnly == pc = "writing_tweets" => Prefix(persisted, tweets_data)

\* the same when no earlier process was killed inside a document write
C25_KilledBetweenWrites ==
    (pc = "writing_tweets" /\ "torn" \notin Range(HistEnds)) => Prefix(persisted, tweets_data)

\* tweets held in memory that no save has written: those beyond the Dataset
\* document, which is the one this process loaded or last wrote (empty when
\* there was none it could read)
Unflushed == Len(tweets_data) - Len(tweetsFile.data)

\* C26 -- Bounded loss window: between two steps of the for loop and between
\* two pages, the tweets held in memory extend the Dataset document by fewer
\* than save_interval tweets, so a process killed there loses fewer than
\* save_interval accepted tweets.
C26_BoundedLoss ==
    pc \in {"loop", "page"}
    => /\ Prefix(tweetsFile.data, tweets_data)
       /\ Unflushed < save_interval

C26_Witness ==
    /\ pc = "page"
    /\ runs = 2
    /\ save_interval = 2
    /\ Unflushed = 1
    /\ Len(tweetsFile.data) = 2
    /\ hist[1].end = "killed"

\* C27 -- Consistent state on normal return: when fetch_liked_tweets returns
\* after the loop, the Dataset document is the list it returns and the
\* Checkpoint document's tweets_fetched is that list's length.
C27_ConsistentReturn ==
    pc = "returned"
    => /\ tweetsFile.st = "ok"
       /\ tweetsFile.data = tweets_data
       /\ checkpointFile.st = "ok"
       /\ checkpointFile.tweets_fetched = Len(tweets_data)

C27_Witness ==
    /\ pc = "returned"
    /\ runs = 2
    /\ hist[1].end = "torn"
    /\ Len(tweets_data) > 0
    /\ tweetsFile.data = tweets_data
    /\ checkpointFile.tweets_fetched = Len(tweets_data)

\* the process started with its target already met by the Dataset it loaded
AlreadyMet == pc # "idle" /\ requests = 0 /\ tweets_fetched >= count

\* C28 -- Target already met: a process that starts with |Dataset| >= count
\* goes from the loop test straight to the final save and the return; it
\* requests no page, touches no media file, keeps its list as loaded, and
\* wherever the documents are readable the Dataset document holds that list
\* and the Checkpoint document the cursor that was loaded, before and after
\* the final save rewrites them.
C28_TargetAlreadyMet ==
    /\ [](AlreadyMet
          => /\ pc \in {"loop", "returned"} \cup Saving
             /\ pc \in Saving => flushFrom = "final"
             /\ persisted = tweets_data
             /\ tweetsFile.st = "ok" => tweetsFile.data = tweets_data
             /\ checkpointFile.st = "ok" => checkpointFile.pagination_token = pagination_token
             /\ pc = "returned" => (tweetsFile.st = "ok" /\ checkpointFile.st = "ok"))
    /\ [][(AlreadyMet /\ pc' # "idle")
          => (/\ requests' = 0
              /\ tweets_data' = tweets_data
              /\ pagination_token' = pagination_token
              /\ mediaDir' = mediaDir
              /\ downloads' = downloads)]_vars

C28_Witness ==
    /\ AlreadyMet
    /\ pc = "returned"
    /\ flushes = 1
    /\ Len(tweets_data) > count
    /\ pagination_token > 0
    /\ checkpointFile = CheckpointDoc(pagination_token, Len(tweets_data))

RECURSIVE Flatten(_)
Flatten(chunks) == IF chunks = <<>> THEN <<>> ELSE Head(chunks) \o Flatten(Tail(chunks))

\* ceil(n / ChunkLength)
ChunksFor(n) == (n + ChunkLength - 1) \div ChunkLength

WellChunked(chunks, list) ==
    /\ Flatten(chunks) = list
    /\ \A i \in 1..Len(chunks) : Len(chunks[i]) \in 1..ChunkLength

\* C29 -- List synchronisation: for every list of followed ids and every list
\* of current members, to_add holds exactly the followed ids that are not
\* members and to_remove exactly the members that are not followed, and the
\* two share no id; the chunks of each, taken in order, make up the list again
\* and hold between 1 and 100 ids each; when update_list is through, one call
\* per chunk has been made and the list's members are exactly the followed
\* ids, with no call at all when they already were.
C29_ListSynchronised ==
    /\ lpc \in {"update_list", "done"}
       => /\ Range(to_add) = Range(follows) \ Range(current_list_ids)
          /\ Range(to_remove) = Range(current_list_ids) \ Range(follows)
          /\ Range(to_add) \cap Range(to_remove) = {}
    /\ (lpc = "update_list" /\ listCalls = [add |-> 0, remove |-> 0])
       => /\ WellChunked(add_chunks, to_add)
          /\ WellChunked(remove_chunks, to_remove)
    /\ lpc = "done"
       => /\ listMembers = Range(follows)
          /\ listCalls = [add |-> ChunksFor(Len(to_add)), remove |-> ChunksFor(Len(to_remove))]
          /\ Range(follows) = Range(current_list_ids)
             => listCalls = [add |-> 0, remove |-> 0]
    /\ (lpc \in {"update_list", "raised"} /\ Range(follows) = Range(current_list_ids))
       => /\ add_chunks = <<>>
          /\ remove_chunks = <<>>
          /\ lpc # "raised"

C29_Witness ==
    /\ lpc = "done"
    /\ Len(to_add) = 250
    /\ Len(to_remove) = 50
    /\ listCalls = [add |-> 3, remove |-> 1]
    /\ listMembers = Range(follows)

TypeOK ==
    /\ pc \in Running \cup Ended \cup {"idle"}
    /\ tweets_fetched \in Nat
    /\ runs \in 0..maxRuns

====
